---- MODULE Spec2Model ----
\* A model of the structured-error library github.com/tiandh987/errors:
\* the error-chain constructors (errors.go), the code registry (code.go)
\* and the aggregate/filter subsystem.  Errors are heap objects named by
\* their index in `heap` (pointer identity); Nil (0) is the nil error.
EXTENDS Integers, Sequences, FiniteSets, TLC

VARIABLES
    heap,       \* the error values allocated so far, heap[r] is the link at address r
    codes,      \* the registry: var codes = map[int]Coder{}
    call,       \* the most recent call: [op |-> name, args |-> <<...>>]
    ret,        \* what that call returned (a reference, Nil, or NoValue)
    panicked,   \* whether that call panicked
    out,        \* the text the most recent rendering call produced
    codeMux,    \* var codeMux = &sync.Mutex{}: the goroutine holding it, or 0
    procs       \* the goroutines inside Register/MustRegister, by id

vars == <<heap, codes, call, ret, panicked, out, codeMux, procs>>

\* the state the sequential constructors and registrations leave alone
rendered == <<out>>
goroutines == <<codeMux, procs>>

\* ---------------------------------------------------------------- bounds
MaxHeap == 3        \* links allocated in the chain specification
MaxWrapHeap == 5    \* links allocated in the Wrap specification
MaxWraps == 3       \* longest run of nested Wrap calls examined

\* ---------------------------------------------------------------- values
Nil == 0
NoValue == -1                           \* a call with no result (Register)
Refs(h) == 1..Len(h)

Msgs == {"a"}                            \* message arguments
FmtInputs == {<<"%s", <<"b">>>>}
                                         \* (format, args) arguments
LinkCodes == {100, 200}                  \* codes carried by withCode links
QueryCodes == {0, 100, 200, 999}         \* codes asked of IsCode

\* fmt.Sprintf / fmt.Errorf(...).Error() on the formats above: "%s" consumes
\* one argument, a missing operand and surplus operands are reported in-band.
Extra(args) ==
    IF args = <<>> THEN "" ELSE "%!(EXTRA string=" \o args[1] \o ")"

Sprintf(format, args) ==
    IF format = "%s"
    THEN IF args = <<>> THEN "%!s(MISSING)" ELSE args[1] \o Extra(Tail(args))
    ELSE format \o Extra(args)

\* callers(): the program counters of the constructor's callers; never nil.
callers == <<"pc">>

\* ---------------------------------------------------------------- registry
unknownCoder ==
    [C |-> 0, HTTP |-> 500, Ext |-> "An internal server error occurred",
     Ref |-> "http://github.com/tiandh987/errors/README.md"]

\* func init(): codes[unknownCoder.Code()] = unknownCoder
InitCodes == (0 :> unknownCoder)

Code(coder) == coder.C

HTTPStatus(coder) == IF coder.HTTP = 0 THEN 500 ELSE coder.HTTP

MkCoder(c, http, ext) == [C |-> c, HTTP |-> http, Ext |-> ext, Ref |-> "ref"]

\* Coders offered to Register/MustRegister in the chain specification
ChainCoders == {MkCoder(c, 400, "ext") : c \in {0, 100}}

\* Coders offered in the registry specification
RegCoders == {MkCoder(c, http, ext) : c \in {0, 100, 200, 300},
                                      http \in {0, 404}, ext \in {"", "ext"}}

RegisterKeepFirst(coder) ==
    /\ call' = [op |-> "Register", args |-> <<coder>>]
    /\ ret' = NoValue
    /\ IF Code(coder) = 0
       THEN /\ panicked' = TRUE
            /\ UNCHANGED codes
       ELSE /\ panicked' = FALSE
            /\ codes' = IF Code(coder) \in DOMAIN codes THEN codes
                        ELSE codes @@ (Code(coder) :> coder)
    /\ UNCHANGED <<heap, rendered, goroutines>>

RegisterZeroAllowed(coder) ==
    /\ call' = [op |-> "Register", args |-> <<coder>>]
    /\ ret' = NoValue
    /\ panicked' = FALSE
    /\ codes' = (Code(coder) :> coder) @@ codes
    /\ UNCHANGED <<heap, rendered, goroutines>>

\* func Register(coder Coder)
Register(coder) ==
    /\ call' = [op |-> "Register", args |-> <<coder>>]
    /\ ret' = NoValue
    /\ IF Code(coder) = 0
       THEN /\ panicked' = TRUE
            /\ UNCHANGED codes
       ELSE /\ panicked' = FALSE
            /\ codes' = (Code(coder) :> coder) @@ codes
    /\ UNCHANGED <<heap, rendered, goroutines>>

MustRegisterOverwrite(coder) ==
    /\ call' = [op |-> "MustRegister", args |-> <<coder>>]
    /\ ret' = NoValue
    /\ IF Code(coder) = 0
       THEN /\ panicked' = TRUE
            /\ UNCHANGED codes
       ELSE IF Code(coder) \in DOMAIN codes
       THEN /\ panicked' = TRUE
            /\ codes' = (Code(coder) :> coder) @@ codes
       ELSE /\ panicked' = FALSE
            /\ codes' = (Code(coder) :> coder) @@ codes
    /\ UNCHANGED <<heap, rendered, goroutines>>

\* func MustRegister(coder Coder)
MustRegister(coder) ==
    /\ call' = [op |-> "MustRegister", args |-> <<coder>>]
    /\ ret' = NoValue
    /\ IF Code(coder) = 0
       THEN /\ panicked' = TRUE
            /\ UNCHANGED codes
       ELSE IF Code(coder) \in DOMAIN codes
       THEN /\ panicked' = TRUE
            /\ UNCHANGED codes
       ELSE /\ panicked' = FALSE
            /\ codes' = (Code(coder) :> coder) @@ codes
    /\ UNCHANGED <<heap, rendered, goroutines>>

\* ---------------------------------------------------------------- links
fundamental(msg) == [kind |-> "fundamental", msg |-> msg, stack |-> callers]
withStack(err) == [kind |-> "withStack", error |-> err, stack |-> callers]
withMessage(cause, msg) == [kind |-> "withMessage", cause |-> cause, msg |-> msg]
withCode(err, code, cause) ==
    [kind |-> "withCode", err |-> err, code |-> code, cause |-> cause,
     stack |-> callers]

IsWithCode(h, e) == e # Nil /\ h[e].kind = "withCode"

\* the call returns r after the heap became h
Return(op, args, h, r) ==
    /\ call' = [op |-> op, args |-> args]
    /\ heap' = h
    /\ ret' = r
    /\ panicked' = FALSE
    /\ UNCHANGED <<codes, rendered, goroutines>>

\* func New(message string) error
New(message) ==
    Return("New", <<message>>, Append(heap, fundamental(message)), Len(heap) + 1)

\* func Errorf(format string, args ...interface{}) error
Errorf(format, args) ==
    Return("Errorf", <<format, args>>,
           Append(heap, fundamental(Sprintf(format, args))), Len(heap) + 1)

\* func WithCode(code int, format string, args ...interface{}) error
WithCode(code, format, args) ==
    Return("WithCode", <<code, format, args>>,
           Append(heap, withCode(Sprintf(format, args), code, Nil)), Len(heap) + 1)

\* func WithMessage(err error, message string) error
WithMessage(err, message) ==
    IF err = Nil
    THEN Return("WithMessage", <<err, message>>, heap, Nil)
    ELSE Return("WithMessage", <<err, message>>,
                Append(heap, withMessage(err, message)), Len(heap) + 1)

\* func WithMessagef(err error, format string, args ...interface{}) error
WithMessagef(err, format, args) ==
    IF err = Nil
    THEN Return("WithMessagef", <<err, format, args>>, heap, Nil)
    ELSE Return("WithMessagef", <<err, format, args>>,
                Append(heap, withMessage(err, Sprintf(format, args))), Len(heap) + 1)

\* func WithStack(err error) error
WithStack(err) ==
    IF err = Nil
    THEN Return("WithStack", <<err>>, heap, Nil)
    ELSE IF IsWithCode(heap, err)
    THEN Return("WithStack", <<err>>,
                Append(heap, withCode(heap[err].err, heap[err].code, err)),
                Len(heap) + 1)
    ELSE Return("WithStack", <<err>>, Append(heap, withStack(err)), Len(heap) + 1)

WrapNoNilCheck(err, message) ==
    IF IsWithCode(heap, err)
    THEN Return("Wrap", <<err, message>>,
                Append(heap, withCode(Sprintf(message, <<>>), heap[err].code, err)),
                Len(heap) + 1)
    ELSE Return("Wrap", <<err, message>>,
                heap \o <<withMessage(err, message), withStack(Len(heap) + 1)>>,
                Len(heap) + 2)

WrapAlwaysShell(err, message) ==
    IF err = Nil
    THEN Return("Wrap", <<err, message>>, heap, Nil)
    ELSE Return("Wrap", <<err, message>>,
                heap \o <<withMessage(err, message), withStack(Len(heap) + 1)>>,
                Len(heap) + 2)

\* func Wrap(err error, message string) error
Wrap(err, message) ==
    IF err = Nil
    THEN Return("Wrap", <<err, message>>, heap, Nil)
    ELSE IF IsWithCode(heap, err)
    THEN Return("Wrap", <<err, message>>,
                Append(heap, withCode(Sprintf(message, <<>>), heap[err].code, err)),
                Len(heap) + 1)
    ELSE Return("Wrap", <<err, message>>,
                heap \o <<withMessage(err, message), withStack(Len(heap) + 1)>>,
                Len(heap) + 2)

\* func WrapC(err error, code int, format string, args ...interface{}) error
WrapC(err, code, format, args) ==
    IF err = Nil
    THEN Return("WrapC", <<err, code, format, args>>, heap, Nil)
    ELSE Return("WrapC", <<err, code, format, args>>,
                Append(heap, withCode(Sprintf(format, args), code, err)),
                Len(heap) + 1)

\* func Wrapf(err error, format string, args ...interface{}) error
Wrapf(err, format, args) ==
    IF err = Nil
    THEN Return("Wrapf", <<err, format, args>>, heap, Nil)
    ELSE IF IsWithCode(heap, err)
    THEN Return("Wrapf", <<err, format, args>>,
                Append(heap, withCode(Sprintf(format, args), heap[err].code, err)),
                Len(heap) + 1)
    ELSE Return("Wrapf", <<err, format, args>>,
                heap \o <<withMessage(err, Sprintf(format, args)),
                          withStack(Len(heap) + 1)>>,
                Len(heap) + 2)

\* ---------------------------------------------------------------- inspection
\* the kinds whose method set has Unwrap() error
HasUnwrap(h, e) == e # Nil /\ h[e].kind \in {"withCode", "withMessage", "withStack"}

RECURSIVE UnwrapMethodShallow(_, _)
UnwrapMethodShallow(h, e) ==
    CASE h[e].kind = "withCode" -> h[e].cause
      [] h[e].kind = "withMessage" -> h[e].cause
      [] h[e].kind = "withStack" -> h[e].error

\* func (w withCode) Unwrap(), (w *withMessage) Unwrap(), (w *withStack) Unwrap()
RECURSIVE UnwrapMethod(_, _)
UnwrapMethod(h, e) ==
    CASE h[e].kind = "withCode" -> h[e].cause
      [] h[e].kind = "withMessage" -> h[e].cause
      [] h[e].kind = "withStack" ->
            IF HasUnwrap(h, h[e].error)
            THEN UnwrapMethod(h, h[e].error)
            ELSE h[e].error

\* one step of the unwrap walk: the Unwrap method when there is one, else nil
Unwrap(h, e) == IF HasUnwrap(h, e) THEN UnwrapMethod(h, e) ELSE Nil

RECURSIVE UnwrapN(_, _, _)
UnwrapN(h, e, n) == IF n = 0 THEN e ELSE Unwrap(h, UnwrapN(h, e, n - 1))

RECURSIVE IsCodeOutermostOnly(_, _, _)
IsCodeOutermostOnly(h, err, code) ==
    IF IsWithCode(h, err) THEN h[err].code = code ELSE FALSE

\* func IsCode(err error, code int) bool
RECURSIVE IsCode(_, _, _)
IsCode(h, err, code) ==
    IF IsWithCode(h, err)
    THEN IF h[err].code = code
         THEN TRUE
         ELSE IF h[err].cause # Nil
              THEN IsCode(h, h[err].cause, code)
              ELSE FALSE
    ELSE FALSE

\* the nil Coder
NoCoder == [nil |-> TRUE]

\* func ParseCoder(err error) Coder
ParseCoder(h, cds, err) ==
    IF err = Nil
    THEN NoCoder
    ELSE IF IsWithCode(h, err) /\ h[err].code \in DOMAIN cds
    THEN cds[h[err].code]
    ELSE unknownCoder

\* ---------------------------------------------------------------- chain specification
Init ==
    /\ heap = <<>>
    /\ codes = InitCodes
    /\ call = [op |-> "init", args |-> <<>>]
    /\ ret = NoValue
    /\ panicked = FALSE
    /\ out = ""
    /\ codeMux = 0
    /\ procs = <<>>

Errs == Refs(heap) \cup {Nil}

Next ==
    \/ \E m \in Msgs : New(m) /\ Len(heap') <= MaxHeap
    \/ \E f \in FmtInputs : Errorf(f[1], f[2]) /\ Len(heap') <= MaxHeap
    \/ \E c \in LinkCodes, f \in FmtInputs :
          WithCode(c, f[1], f[2]) /\ Len(heap') <= MaxHeap
    \/ \E e \in Errs, m \in Msgs : WithMessage(e, m) /\ Len(heap') <= MaxHeap
    \/ \E e \in Errs, f \in FmtInputs :
          WithMessagef(e, f[1], f[2]) /\ Len(heap') <= MaxHeap
    \/ \E e \in Errs : WithStack(e) /\ Len(heap') <= MaxHeap
    \/ \E e \in Errs, m \in Msgs : Wrap(e, m) /\ Len(heap') <= MaxHeap
    \/ \E e \in Errs, f \in FmtInputs : Wrapf(e, f[1], f[2]) /\ Len(heap') <= MaxHeap
    \/ \E e \in Errs, c \in LinkCodes, f \in FmtInputs :
          WrapC(e, c, f[1], f[2]) /\ Len(heap') <= MaxHeap
    \/ \E coder \in ChainCoders : Register(coder)
    \/ \E coder \in ChainCoders : MustRegister(coder)

Spec == Init /\ [][Next]_vars

\* ---------------------------------------------------------------- Wrap specification
\* errors of every kind, wrapped by Wrap(., "")
NextWrap ==
    \/ \E m \in Msgs : New(m) /\ Len(heap') <= MaxWrapHeap
    \/ \E c \in LinkCodes : WithCode(c, "a", <<>>) /\ Len(heap') <= MaxWrapHeap
    \/ \E e \in Errs : WithStack(e) /\ Len(heap') <= MaxWrapHeap
    \/ \E e \in Errs : Wrap(e, "") /\ Len(heap') <= MaxWrapHeap

SpecWrap == Init /\ [][NextWrap]_vars

\* ---------------------------------------------------------------- registry specification
NextReg ==
    \/ \E coder \in RegCoders : Register(coder)
    \/ \E coder \in RegCoders : MustRegister(coder)

SpecReg == Init /\ [][NextReg]_vars

\* ---------------------------------------------------------------- aggregate
\* An error value seen through the error interface: nil, a pointer to a link
\* of the heap, or an aggregate (a slice of error values, compared by value).
NilErr == [kind |-> "nil"]
Ptr(r) == [kind |-> "ptr", ref |-> r]
aggregate(errs) == [kind |-> "aggregate", errs |-> errs]
IsAggregate(v) == v.kind = "aggregate"

AggMsgs == {"x", "y"}

\* Error() of fundamental, withMessage and withStack links
RECURSIVE ErrorText(_, _)
ErrorText(h, r) ==
    CASE h[r].kind = "fundamental" -> h[r].msg
      [] h[r].kind = "withMessage" -> h[r].msg
      [] h[r].kind = "withStack" -> ErrorText(h, h[r].error)

RECURSIVE NonNil(_)
NonNil(errlist) ==
    IF errlist = <<>> THEN <<>>
    ELSE IF Head(errlist) # NilErr
         THEN <<Head(errlist)>> \o NonNil(Tail(errlist))
         ELSE NonNil(Tail(errlist))

NewAggregateKeepsNil(errlist) ==
    IF Len(errlist) = 0 THEN NilErr
    ELSE IF Len(NonNil(errlist)) = 0 THEN NilErr
    ELSE aggregate(errlist)

\* func NewAggregate(errlist []error) Aggregate
NewAggregate(errlist) ==
    IF Len(errlist) = 0 THEN NilErr
    ELSE LET errs == NonNil(errlist)
         IN  IF Len(errs) = 0 THEN NilErr ELSE aggregate(errs)

\* func (agg aggregate) Errors() []error
Errors(agg) == agg.errs

\* func (agg aggregate) visit(f): the errors f is applied to, in order, when
\* f never reports a match
RECURSIVE visit(_)
visit(agg) ==
    IF agg = <<>> THEN <<>>
    ELSE (IF IsAggregate(Head(agg)) THEN visit(Head(agg).errs) ELSE <<Head(agg)>>)
         \o visit(Tail(agg))

RECURSIVE Error(_, _)
RECURSIVE aggregateError(_, _)
RECURSIVE ErrorLoop(_, _, _)

\* the closure aggregate.Error passes to visit, applied to each visited error
ErrorLoop(h, visited, acc) ==
    IF visited = <<>> THEN acc
    ELSE LET msg == Error(h, Head(visited))
         IN  IF msg \in acc.seenerrs
             THEN ErrorLoop(h, Tail(visited), acc)
             ELSE LET seen == acc.seenerrs \cup {msg}
                      sep == IF Cardinality(seen) > 1 THEN ", " ELSE ""
                  IN  ErrorLoop(h, Tail(visited),
                                [seenerrs |-> seen, result |-> acc.result \o sep \o msg])

aggregateErrorAlwaysBrackets(h, agg) ==
    IF Len(agg) = 0 THEN ""
    ELSE IF Len(agg) = 1 THEN Error(h, agg[1])
    ELSE LET acc == ErrorLoop(h, visit(agg), [seenerrs |-> {}, result |-> ""])
         IN  "[" \o acc.result \o "]"

\* func (agg aggregate) Error() string
aggregateError(h, agg) ==
    IF Len(agg) = 0 THEN ""
    ELSE IF Len(agg) = 1 THEN Error(h, agg[1])
    ELSE LET acc == ErrorLoop(h, visit(agg), [seenerrs |-> {}, result |-> ""])
         IN  IF Cardinality(acc.seenerrs) = 1
             THEN acc.result
             ELSE "[" \o acc.result \o "]"

\* err.Error() through the error interface
Error(h, err) ==
    IF IsAggregate(err) THEN aggregateError(h, err.errs) ELSE ErrorText(h, err.ref)

\* type Matcher func(error) bool: the matchers callers pass are identity
\* tests (err == target) and tests of the error's text
MatchIs(target) == [kind |-> "is", target |-> target]
MatchText(text) == [kind |-> "text", text |-> text]
Apply(h, fn, err) ==
    IF fn.kind = "is" THEN err = fn.target ELSE Error(h, err) = fn.text

matchesErrorFirstOnly(h, err, fns) ==
    IF fns = <<>> THEN FALSE ELSE Apply(h, fns[1], err)

\* func matchesError(err error, fns ...Matcher) bool
RECURSIVE matchesError(_, _, _)
matchesError(h, err, fns) ==
    IF fns = <<>> THEN FALSE
    ELSE IF Apply(h, Head(fns), err) THEN TRUE
    ELSE matchesError(h, err, Tail(fns))

RECURSIVE FilterOut(_, _, _)
RECURSIVE filterErrors(_, _, _)

\* func filterErrors(list []error, fns ...Matcher) []error
filterErrors(h, list, fns) ==
    IF list = <<>> THEN <<>>
    ELSE LET r == FilterOut(h, Head(list), fns)
         IN  IF r # NilErr
             THEN <<r>> \o filterErrors(h, Tail(list), fns)
             ELSE filterErrors(h, Tail(list), fns)

\* func FilterOut(err error, fns ...Matcher) error
FilterOut(h, err, fns) ==
    IF err = NilErr THEN NilErr
    ELSE IF IsAggregate(err) THEN NewAggregate(filterErrors(h, Errors(err), fns))
    ELSE IF ~matchesError(h, err, fns) THEN err
    ELSE NilErr

\* a call of NewAggregate
CallNewAggregate(errlist) ==
    /\ call' = [op |-> "NewAggregate", args |-> <<errlist>>]
    /\ ret' = NewAggregate(errlist)
    /\ panicked' = FALSE
    /\ UNCHANGED <<heap, codes, rendered, goroutines>>

\* a call of FilterOut
CallFilterOut(err, fns) ==
    /\ call' = [op |-> "FilterOut", args |-> <<err, fns>>]
    /\ ret' = FilterOut(heap, err, fns)
    /\ panicked' = FALSE
    /\ UNCHANGED <<heap, codes, rendered, goroutines>>

\* ---------------------------------------------------------------- aggregate specification
MaxList == 3        \* longest error list passed to NewAggregate
MaxDepth == 2       \* deepest nesting of the aggregates examined

\* three distinct leaf errors, two of them with the same text
InitAgg ==
    /\ heap = <<fundamental("x"), fundamental("x"), fundamental("y")>>
    /\ codes = InitCodes
    /\ call = [op |-> "init", args |-> <<>>]
    /\ ret = NilErr
    /\ panicked = FALSE
    /\ out = ""
    /\ codeMux = 0
    /\ procs = <<>>

Leaves == {Ptr(r) : r \in Refs(heap)}

\* the lists of at most n leaves in which no leaf occurs twice
LeafLists(n) ==
    {l \in UNION {[1..k -> Leaves] : k \in 0..n} :
        \A i, j \in DOMAIN l : l[i] = l[j] => i = j}

InsertAt(l, p, e) == SubSeq(l, 1, p - 1) \o <<e>> \o SubSeq(l, p, Len(l))

\* the lists of at most n distinct leaves in address order
OrderedLeafLists(n) ==
    {l \in LeafLists(n) : \A i, j \in DOMAIN l : i < j => l[i].ref < l[j].ref}

\* the aggregates nested at most d deep, of at most MaxList errors: the flat
\* ones hold distinct leaves in any order, the nested ones one aggregate
\* anywhere among distinct leaves in address order
RECURSIVE Aggregates(_)
Aggregates(d) ==
    IF d = 0 THEN {}
    ELSE LET inner == Aggregates(d - 1)
         IN  {aggregate(l) : l \in LeafLists(MaxList) \ {<<>>}}
             \cup UNION {{aggregate(InsertAt(l, p, a)) :
                             p \in 1..(Len(l) + 1), a \in inner} :
                         l \in OrderedLeafLists(MaxList - 1)}

\* the error lists passed to NewAggregate: the empty list, and the lists
\* above with any of their entries replaced by nil
ErrLists ==
    {<<>>} \cup
    UNION {{[i \in DOMAIN Errors(a) |-> IF i \in mask THEN NilErr ELSE Errors(a)[i]] :
               mask \in SUBSET DOMAIN Errors(a)} :
           a \in Aggregates(MaxDepth)}

\* the errors passed to FilterOut
ErrInputs == {NilErr} \cup Leaves \cup Aggregates(MaxDepth)

\* the matcher lists: none, one matcher, an identity test then a text test
FnsInputs ==
    {<<>>}
    \cup {<<MatchIs(e)>> : e \in Leaves}
    \cup {<<MatchText(m)>> : m \in AggMsgs}
    \cup {<<MatchIs(e), MatchText(m)>> : e \in Leaves, m \in AggMsgs}

\* each behaviour is one call on one input: the functions keep no state
NextAgg ==
    \/ /\ call.op = "init"
       /\ \E errlist \in ErrLists : CallNewAggregate(errlist)
    \/ /\ call.op = "init"
       /\ \E err \in ErrInputs, fns \in FnsInputs : CallFilterOut(err, fns)

SpecAgg == InitAgg /\ [][NextAgg]_vars

\* ---------------------------------------------------------------- formatter
\* strconv of an int, as the %d verb prints it
Itoa(n) == ToString(n)

\* func (f Frame) file(), line(), name(): the frame resolved by the runtime
file(f) == "main.go"
line(f) == 12
name(f) == "main.main"

\* strings.Trim(s, "\r\n\t")
Cutset == {"\r", "\n", "\t"}

RECURSIVE TrimLeft(_)
TrimLeft(s) ==
    IF Len(s) > 0 /\ SubSeq(s, 1, 1) \in Cutset
    THEN TrimLeft(SubSeq(s, 2, Len(s)))
    ELSE s

RECURSIVE TrimRight(_)
TrimRight(s) ==
    IF Len(s) > 0 /\ SubSeq(s, Len(s), Len(s)) \in Cutset
    THEN TrimRight(SubSeq(s, 1, Len(s) - 1))
    ELSE s

Trim(s) == TrimRight(TrimLeft(s))

\* a *bytes.Buffer: the nil pointer, or a buffer and its contents
NilBuffer == [nil |-> TRUE]
NewBuffer(text) == [buf |-> text]

\* func (b *Buffer) String(): a nil receiver yields "<nil>"
BufferString(b) == IF b = NilBuffer THEN "<nil>" ELSE b.buf

\* a nil *stack
NoStack == <<>>

\* func list(e error) []error
RECURSIVE list(_, _)
list(h, e) ==
    IF e = Nil THEN <<>>
    ELSE IF HasUnwrap(h, e) THEN <<e>> \o list(h, UnwrapMethod(h, e))
    ELSE <<e>>

\* func buildFormatInfo(e error) *formatInfo
buildFormatInfo(h, cds, e) ==
    CASE h[e].kind = "fundamental" ->
            [code |-> Code(unknownCoder), message |-> h[e].msg,
             err |-> h[e].msg, stack |-> h[e].stack]
      [] h[e].kind = "withStack" ->
            [code |-> Code(unknownCoder), message |-> ErrorText(h, e),
             err |-> ErrorText(h, e), stack |-> h[e].stack]
      [] h[e].kind = "withCode" ->
            LET coder == IF h[e].code \in DOMAIN cds
                         THEN cds[h[e].code] ELSE unknownCoder
                extMsg == IF coder.Ext = "" THEN h[e].err ELSE coder.Ext
            IN  [code |-> Code(coder), message |-> extMsg,
                 err |-> h[e].err, stack |-> h[e].stack]
      [] OTHER ->
            [code |-> Code(unknownCoder), message |-> ErrorText(h, e),
             err |-> ErrorText(h, e), stack |-> NoStack]

\* the caller text of one entry: "#k" and, with a stack, the first frame
Caller(k, finfo) ==
    IF finfo.stack # NoStack
    THEN "#" \o Itoa(k) \o " " \o file(finfo.stack[1]) \o ":"
         \o Itoa(line(finfo.stack[1])) \o " (" \o name(finfo.stack[1]) \o ")"
    ELSE "#" \o Itoa(k)

\* the text format() prints for one link in text mode
TextEntry(k, finfo, sep, flagDetail, flagTrace) ==
    IF flagDetail \/ flagTrace
    THEN IF finfo.stack # NoStack
         THEN sep \o finfo.err \o " - #" \o Itoa(k) \o " ["
              \o file(finfo.stack[1]) \o ":" \o Itoa(line(finfo.stack[1]))
              \o " (" \o name(finfo.stack[1]) \o ")] ("
              \o Itoa(finfo.code) \o ") " \o finfo.message
         ELSE sep \o finfo.err \o " - #" \o Itoa(k) \o " " \o finfo.message
    ELSE Sprintf(finfo.message, <<>>)

\* the map format() appends in JSON mode
JsonEntry(k, finfo, flagDetail, flagTrace) ==
    IF flagDetail \/ flagTrace
    THEN [message |-> finfo.message, code |-> finfo.code, error |-> finfo.err,
          caller |-> Caller(k, finfo)]
    ELSE [error |-> finfo.message]

\* func format(k, jsonData, str, finfo, sep, flagDetail, flagTrace, modeJSON):
\* in text mode it prints to str, which panics when str is the nil buffer;
\* it returns the JSON data and a nil buffer (`wrote` is the buffer the
\* caller passed, after the call)
format(k, jsonData, str, finfo, sep, flagDetail, flagTrace, modeJSON) ==
    IF modeJSON
    THEN [jsonData |-> Append(jsonData, JsonEntry(k, finfo, flagDetail, flagTrace)),
          wrote |-> str, str |-> NilBuffer, panic |-> FALSE]
    ELSE IF str = NilBuffer
    THEN [jsonData |-> jsonData, wrote |-> str, str |-> NilBuffer, panic |-> TRUE]
    ELSE [jsonData |-> jsonData,
          wrote |-> NewBuffer(str.buf \o TextEntry(k, finfo, sep, flagDetail, flagTrace)),
          str |-> NilBuffer, panic |-> FALSE]

\* json.Marshal of one map: the keys in sorted order
MarshalMap(data) ==
    IF "caller" \in DOMAIN data
    THEN "{\"caller\":\"" \o data.caller \o "\",\"code\":" \o Itoa(data.code)
         \o ",\"error\":\"" \o data.error \o "\",\"message\":\"" \o data.message
         \o "\"}"
    ELSE "{\"error\":\"" \o data.error \o "\"}"

RECURSIVE MarshalList(_)
MarshalList(jsonData) ==
    IF jsonData = <<>> THEN ""
    ELSE MarshalMap(Head(jsonData))
         \o (IF Tail(jsonData) = <<>> THEN "" ELSE ",")
         \o MarshalList(Tail(jsonData))

\* json.Marshal(jsonData)
Marshal(jsonData) == "[" \o MarshalList(jsonData) \o "]"

\* the loop of withCode.Format over errs, from index k (0-based)
RECURSIVE FormatLoop(_, _, _, _, _, _, _, _, _, _)
FormatLoop(h, cds, errs, k, jsonData, str, sep, flagDetail, flagTrace, modeJSON) ==
    IF k >= Len(errs)
    THEN [jsonData |-> jsonData, str |-> str, panic |-> FALSE]
    ELSE LET finfo == buildFormatInfo(h, cds, errs[k + 1])
             r == format(Len(errs) - k - 1, jsonData, str, finfo, sep,
                         flagDetail, flagTrace, modeJSON)
         IN  IF r.panic
             THEN [jsonData |-> jsonData, str |-> str, panic |-> TRUE]
             ELSE IF ~flagTrace
             THEN [jsonData |-> r.jsonData, str |-> r.str, panic |-> FALSE]
             ELSE IF ~flagDetail /\ ~flagTrace /\ ~modeJSON
             THEN [jsonData |-> r.jsonData, str |-> r.str, panic |-> FALSE]
             ELSE FormatLoop(h, cds, errs, k + 1, r.jsonData, r.str, "; ",
                             flagDetail, flagTrace, modeJSON)

\* func (w *withCode) Format(state fmt.State, verb rune): what it writes to
\* state, and whether it panics (a write through the nil buffer)
Format(h, cds, w, verb, flags) ==
    IF verb = "v"
    THEN LET modeJSON == "#" \in flags
             flagDetail == "-" \in flags
             flagTrace == "+" \in flags
             l == FormatLoop(h, cds, list(h, w), 0, <<>>, NewBuffer(""), "",
                             flagDetail, flagTrace, modeJSON)
         IN  IF l.panic THEN [out |-> "", panic |-> TRUE]
             ELSE IF modeJSON
             THEN IF l.str = NilBuffer
                  THEN [out |-> "", panic |-> TRUE]
                  ELSE [out |-> Trim(l.str.buf \o Marshal(l.jsonData)),
                        panic |-> FALSE]
             ELSE [out |-> Trim(BufferString(l.str)), panic |-> FALSE]
    ELSE [out |-> Sprintf(buildFormatInfo(h, cds, w).message, <<>>),
          panic |-> FALSE]

\* what fmt prints in place of an operand whose Format method panicked
PanicText(verb) ==
    "%!" \o verb \o "(PANIC=Format method: runtime error: invalid memory "
    \o "address or nil pointer dereference)"

\* fmt.Sprintf("%<flags><verb>", w) for a withCode w: fmt calls w.Format and
\* recovers a panic of it
SprintfErr(h, cds, w, verb, flags) ==
    LET r == Format(h, cds, w, verb, flags)
    IN  IF r.panic THEN r.out \o PanicText(verb) ELSE r.out

\* func (w *withCode) Error() string
withCodeError(h, cds, w) == SprintfErr(h, cds, w, "v", {})

\* a call of err.Error() on a withCode link
CallError(w) ==
    /\ IsWithCode(heap, w)
    /\ call' = [op |-> "Error", args |-> <<w>>]
    /\ out' = withCodeError(heap, codes, w)
    /\ ret' = NoValue
    /\ panicked' = FALSE
    /\ UNCHANGED <<heap, codes, goroutines>>

\* a call of fmt.Sprintf("%<flags><verb>", err) on a withCode link; panicked
\* records a panic inside Format, which fmt recovers
CallSprintf(w, verb, flags) ==
    /\ IsWithCode(heap, w)
    /\ call' = [op |-> "Sprintf", args |-> <<w, verb, flags>>]
    /\ out' = SprintfErr(heap, codes, w, verb, flags)
    /\ ret' = NoValue
    /\ panicked' = Format(heap, codes, w, verb, flags).panic
    /\ UNCHANGED <<heap, codes, goroutines>>

\* ---------------------------------------------------------------- formatter specification
MaxFmtHeap == 3     \* links allocated in the formatter specification

\* Coders offered to Register in the formatter specification
FmtCoders == {MkCoder(100, 400, ext) : ext \in {"", "ext"}}

Verbs == {"v", "s"}
FlagSets == SUBSET {"#", "-", "+"}

NextFmt ==
    \/ \E m \in Msgs : New(m) /\ Len(heap') <= MaxFmtHeap
    \/ \E c \in LinkCodes, f \in FmtInputs :
          WithCode(c, f[1], f[2]) /\ Len(heap') <= MaxFmtHeap
    \/ \E e \in Errs, c \in LinkCodes, f \in FmtInputs :
          WrapC(e, c, f[1], f[2]) /\ Len(heap') <= MaxFmtHeap
    \/ \E e \in Errs, m \in Msgs : Wrap(e, m) /\ Len(heap') <= MaxFmtHeap
    \/ \E coder \in FmtCoders : Register(coder)
    \/ \E w \in Refs(heap) : CallError(w)
    \/ \E w \in Refs(heap), verb \in Verbs, flags \in FlagSets :
          CallSprintf(w, verb, flags)

SpecFmt == Init /\ [][NextFmt]_vars

\* ---------------------------------------------------------------- concurrent registration
\* Register and MustRegister step by step, one call per goroutine.  The
\* program counter of goroutine p is procs[p].pc:
\*   "idle"       not called yet
\*   "entry"      at `if coder.Code() == 0`
\*   "lock"       at codeMux.Lock()
\*   "check"      holding codeMux, at `if _, ok := codes[coder.Code()]; ok`
\*   "write"      holding codeMux, at `codes[coder.Code()] = coder`
\*   "return"     returning: the deferred codeMux.Unlock() is to run
\*   "panicking"  panicking: the deferred codeMux.Unlock() is to run
\*   "done"       returned
\*   "panicked"   the panic left the call
NumProcs == 3       \* goroutines calling Register/MustRegister

Goroutines == 1..NumProcs

Idle == [pc |-> "idle", op |-> "none", coder |-> NoCoder]

\* the Coders goroutine p registers: they differ from goroutine to goroutine
ConcCoders(p) == {MkCoder(c, 400 + p, "ext") : c \in {0, 100, 200}}

InitConc ==
    /\ heap = <<>>
    /\ codes = InitCodes
    /\ call = [op |-> "init", args |-> <<>>]
    /\ ret = NoValue
    /\ panicked = FALSE
    /\ out = ""
    /\ codeMux = 0
    /\ procs = [p \in Goroutines |-> Idle]

sequential == <<heap, call, ret, panicked, out>>

SetPc(p, pc) == procs' = [procs EXCEPT ![p].pc = pc]

\* goroutine p calls Register(coder) or MustRegister(coder)
Go(p, op, coder) ==
    /\ procs[p].pc = "idle"
    /\ procs' = [procs EXCEPT ![p] = [pc |-> "entry", op |-> op, coder |-> coder]]
    /\ UNCHANGED <<codes, codeMux, sequential>>

\* if coder.Code() == 0 { panic(...) }: before the lock is taken
CheckZero(p) ==
    /\ procs[p].pc = "entry"
    /\ SetPc(p, IF Code(procs[p].coder) = 0 THEN "panicked" ELSE "lock")
    /\ UNCHANGED <<codes, codeMux, sequential>>

LockNoWait(p) ==
    /\ procs[p].pc = "lock"
    /\ codeMux' = p
    /\ SetPc(p, IF procs[p].op = "MustRegister" THEN "check" ELSE "write")
    /\ UNCHANGED <<codes, sequential>>

\* codeMux.Lock(); defer codeMux.Unlock()
Lock(p) ==
    /\ procs[p].pc = "lock"
    /\ codeMux = 0
    /\ codeMux' = p
    /\ SetPc(p, IF procs[p].op = "MustRegister" THEN "check" ELSE "write")
    /\ UNCHANGED <<codes, sequential>>

\* MustRegister: if _, ok := codes[coder.Code()]; ok { panic(...) }
CheckExists(p) ==
    /\ procs[p].pc = "check"
    /\ SetPc(p, IF Code(procs[p].coder) \in DOMAIN codes THEN "panicking" ELSE "write")
    /\ UNCHANGED <<codes, codeMux, sequential>>

\* codes[coder.Code()] = coder
Write(p) ==
    /\ procs[p].pc = "write"
    /\ codes' = (Code(procs[p].coder) :> procs[p].coder) @@ codes
    /\ SetPc(p, "return")
    /\ UNCHANGED <<codeMux, sequential>>

\* the deferred codeMux.Unlock(), on return and on panic
Unlock(p) ==
    /\ procs[p].pc \in {"return", "panicking"}
    /\ codeMux' = 0
    /\ SetPc(p, IF procs[p].pc = "return" THEN "done" ELSE "panicked")
    /\ UNCHANGED <<codes, sequential>>

\* a step of goroutine p inside its call
Step(p) ==
    \/ CheckZero(p)
    \/ Lock(p)
    \/ CheckExists(p)
    \/ Write(p)
    \/ Unlock(p)

NextConc ==
    \/ \E p \in Goroutines, op \in {"Register", "MustRegister"} :
          \E coder \in ConcCoders(p) : Go(p, op, coder)
    \/ \E p \in Goroutines : CheckZero(p)
    \/ \E p \in Goroutines : Lock(p)
    \/ \E p \in Goroutines : CheckExists(p)
    \/ \E p \in Goroutines : Write(p)
    \/ \E p \in Goroutines : Unlock(p)

\* a goroutine that can take a step eventually takes one
SpecConc ==
    InitConc /\ [][NextConc]_vars /\ \A p \in Goroutines : WF_vars(Step(p))

\* ---------------------------------------------------------------- properties
WrapOps == {"WithStack", "WithMessage", "WithMessagef", "Wrap", "Wrapf", "WrapC"}

\* C1: every wrapping operation called with a nil error returns nil, does
\* not panic and allocates no link, whatever its other arguments are.
C1_WrapNilIsNil ==
    [][(call'.op \in WrapOps /\ call'.args[1] = Nil)
          => (ret' = Nil /\ heap' = heap /\ ~panicked')]_vars

C1_Witness ==
    /\ call.op = "WrapC"
    /\ call.args[1] = Nil
    /\ ret = Nil
    /\ heap # <<>>

\* the link r is one that Wrap builds: a withStack around a withMessage, or
\* a withCode with a cause
IsWrapLink(h, r) ==
    /\ r # Nil
    /\ \/ h[r].kind = "withStack" /\ h[h[r].error].kind = "withMessage"
       \/ h[r].kind = "withCode" /\ h[r].cause # Nil

\* the error a Wrap link was built over
WrapArg(h, r) ==
    IF h[r].kind = "withStack" THEN h[h[r].error].cause ELSE h[r].cause

RECURSIVE WrapArgN(_, _, _)
WrapArgN(h, r, n) == IF n = 0 THEN r ELSE WrapArgN(h, WrapArg(h, r), n - 1)

\* r is the result of (at least) n nested Wrap calls
RECURSIVE WrappedTimes(_, _, _)
WrappedTimes(h, r, n) ==
    n = 0 \/ (IsWrapLink(h, r) /\ WrappedTimes(h, WrapArg(h, r), n - 1))

\* C2: the result of a Wrap call on a non-nil err is a fresh link over err,
\* and a link built by n nested Wrap calls over err reaches err after
\* exactly n applications of Unwrap, and not before.
C2_WrapAddsOneUnwrapStep ==
    /\ (call.op = "Wrap" /\ call.args[1] # Nil) =>
          /\ ret = Len(heap)
          /\ ret # call.args[1]
          /\ IsWrapLink(heap, ret)
          /\ WrapArg(heap, ret) = call.args[1]
    /\ \A r \in Refs(heap), n \in 1..MaxWraps :
          WrappedTimes(heap, r, n) =>
             /\ UnwrapN(heap, r, n) = WrapArgN(heap, r, n)
             /\ \A k \in 0..(n - 1) : UnwrapN(heap, r, k) # WrapArgN(heap, r, n)

C2_Witness ==
    \E r \in Refs(heap) :
       /\ WrappedTimes(heap, r, 2)
       /\ heap[WrapArgN(heap, r, 2)].kind = "fundamental"
       /\ UnwrapN(heap, r, 2) = WrapArgN(heap, r, 2)
       /\ call.op = "Wrap"
       /\ ret = r

\* the k-th link of the walk IsCode describes: follow cause from err for as
\* long as the links are withCode links
RECURSIVE CodedCauseN(_, _, _)
CodedCauseN(h, err, k) ==
    IF k = 0
    THEN err
    ELSE LET p == CodedCauseN(h, err, k - 1)
         IN  IF IsWithCode(h, p) THEN h[p].cause ELSE Nil

\* C3: IsCode(err, code) is true exactly when a withCode link carrying code
\* is reached from err through consecutive withCode links; it is false for
\* nil and for an err whose outermost link is not a withCode; on
\* WrapC(WrapC(base, 100), 200) it is true for 200 and 100, false for 999.
C3_IsCodeWalksCodedCauses ==
    /\ \A err \in Refs(heap) \cup {Nil}, code \in QueryCodes :
          IsCode(heap, err, code) <=>
             \E k \in 0..Len(heap) :
                LET x == CodedCauseN(heap, err, k)
                IN  IsWithCode(heap, x) /\ heap[x].code = code
    /\ \A code \in QueryCodes : ~IsCode(heap, Nil, code)
    /\ \A err \in Refs(heap), code \in QueryCodes :
          ~IsWithCode(heap, err) => ~IsCode(heap, err, code)
    /\ \A err \in Refs(heap) :
          (/\ IsWithCode(heap, err) /\ heap[err].code = 200
           /\ IsWithCode(heap, heap[err].cause) /\ heap[heap[err].cause].code = 100
           /\ heap[heap[err].cause].cause # Nil
           /\ ~IsWithCode(heap, heap[heap[err].cause].cause))
          => /\ IsCode(heap, err, 200)
             /\ IsCode(heap, err, 100)
             /\ ~IsCode(heap, err, 999)

C3_Witness ==
    /\ call.op = "WrapC"
    /\ ret # Nil
    /\ heap[ret].code = 200
    /\ IsWithCode(heap, heap[ret].cause)
    /\ heap[heap[ret].cause].code = 100
    /\ heap[heap[ret].cause].cause # Nil
    /\ ~IsWithCode(heap, heap[heap[ret].cause].cause)
    /\ IsCode(heap, ret, 100)
    /\ ~IsCode(heap, ret, 999)

\* the immediate cause of a chain link (Cause()), nil for a leaf
Cause(h, e) ==
    IF e = Nil THEN Nil
    ELSE CASE h[e].kind = "withCode" -> h[e].cause
           [] h[e].kind = "withMessage" -> h[e].cause
           [] h[e].kind = "withStack" -> h[e].error
           [] OTHER -> Nil

\* the first withCode link on the cause chain of e, Nil when there is none
RECURSIVE FirstCodeLink(_, _)
FirstCodeLink(h, e) ==
    IF e = Nil THEN Nil
    ELSE IF IsWithCode(h, e) THEN e
    ELSE FirstCodeLink(h, Cause(h, e))

Lookup(cds, code) == IF code \in DOMAIN cds THEN cds[code] ELSE unknownCoder

\* C4: ParseCoder(nil) is no Coder; for a non-nil err that is or chains
\* through a withCode link it is the Coder registered for that link's code
\* (the unknown Coder when unregistered); for an err with no withCode link
\* it is the unknown Coder.
C4_ParseCoderThroughChain ==
    /\ ParseCoder(heap, codes, Nil) = NoCoder
    /\ \A err \in Refs(heap) :
          LET link == FirstCodeLink(heap, err)
          IN  ParseCoder(heap, codes, err) =
                 IF link = Nil THEN unknownCoder
                 ELSE Lookup(codes, heap[link].code)

\* C5: Register with a nonzero code does not panic, makes that code's entry
\* the Coder passed (replacing an earlier one) and changes no other entry.
C5_RegisterOverwrites ==
    [][(call'.op = "Register" /\ Code(call'.args[1]) # 0) =>
          LET coder == call'.args[1]
          IN  /\ ~panicked'
              /\ DOMAIN codes' = DOMAIN codes \cup {Code(coder)}
              /\ codes'[Code(coder)] = coder
              /\ \A c \in DOMAIN codes \ {Code(coder)} : codes'[c] = codes[c]]_vars

C5_Witness ==
    /\ call.op = "Register"
    /\ Code(call.args[1]) = 200
    /\ ~panicked
    /\ codes[200] = call.args[1]
    /\ DOMAIN codes = {0, 100, 200, 300}

\* C6: MustRegister with a nonzero code that already has an entry panics and
\* leaves the registry as it was; with a nonzero code that has none it
\* inserts the Coder.
C6_MustRegisterFirstWins ==
    [][(call'.op = "MustRegister" /\ Code(call'.args[1]) # 0) =>
          LET coder == call'.args[1]
          IN  IF Code(coder) \in DOMAIN codes
              THEN panicked' /\ codes' = codes
              ELSE ~panicked' /\ codes' = (Code(coder) :> coder) @@ codes]_vars

C6_Witness ==
    /\ call.op = "MustRegister"
    /\ Code(call.args[1]) = 100
    /\ panicked
    /\ 100 \in DOMAIN codes
    /\ codes[100] # call.args[1]

\* C7: the entry for code 0 is always the built-in unknown Coder (HTTP status
\* 500), Register and MustRegister with code 0 panic and leave the registry
\* untouched, and no step removes an entry.
C7_ZeroReserved ==
    /\ [](/\ 0 \in DOMAIN codes
          /\ codes[0] = unknownCoder
          /\ HTTPStatus(codes[0]) = 500)
    /\ [][/\ DOMAIN codes \subseteq DOMAIN codes'
          /\ (call'.op \in {"Register", "MustRegister"} /\ Code(call'.args[1]) = 0)
                => (panicked' /\ codes' = codes)]_vars

C7_Witness ==
    /\ call.op \in {"Register", "MustRegister"}
    /\ Code(call.args[1]) = 0
    /\ panicked
    /\ codes[0] = unknownCoder
    /\ Cardinality(DOMAIN codes) = 4

\* the errors of a list that are not nil, in order
Kept(errlist) == SelectSeq(errlist, LAMBDA e : e # NilErr)

\* C8: NewAggregate returns nil for an empty or all-nil list; otherwise an
\* Aggregate whose Errors() is the list without its nil entries, in order,
\* and whose Error() is e.Error() when a single error e remains.
C8_NewAggregateFiltersNil ==
    call.op = "NewAggregate" =>
       LET kept == Kept(call.args[1])
       IN  IF kept = <<>>
           THEN ret = NilErr
           ELSE /\ IsAggregate(ret)
                /\ Errors(ret) = kept
                /\ Len(kept) = 1 => Error(heap, ret) = Error(heap, kept[1])

C8_Witness ==
    /\ call.op = "NewAggregate"
    /\ Len(call.args[1]) = 3
    /\ call.args[1][2] = NilErr
    /\ IsAggregate(ret)
    /\ Errors(ret) = <<call.args[1][1], call.args[1][3]>>

\* the leaf errors of an error value, depth first
RECURSIVE LeavesOf(_)
LeavesOf(v) ==
    IF ~IsAggregate(v) THEN <<v>>
    ELSE IF Len(v.errs) = 1 THEN LeavesOf(v.errs[1])
    ELSE LeavesOf(v.errs[1]) \o LeavesOf(aggregate(Tail(v.errs)))

\* the strings of msgs from the i-th on that occur at no earlier index,
\* each but the first of the sequence preceded by ", "
RECURSIVE JoinFirstSeen(_, _)
JoinFirstSeen(msgs, i) ==
    IF i > Len(msgs) THEN ""
    ELSE IF \E j \in 1..(i - 1) : msgs[j] = msgs[i]
    THEN JoinFirstSeen(msgs, i + 1)
    ELSE (IF i = 1 THEN "" ELSE ", ") \o msgs[i] \o JoinFirstSeen(msgs, i + 1)

C10_FilterOutFlat ==
    call.op = "FilterOut" =>
       LET err == call.args[1]
           fns == call.args[2]
           Matched(e) == \E i \in DOMAIN fns : Apply(heap, fns[i], e)
       IN  /\ (IsAggregate(err) /\ \A i \in DOMAIN err.errs : ~IsAggregate(err.errs[i])) =>
                 LET kept == SelectSeq(err.errs, LAMBDA e : ~Matched(e))
                 IN  IF kept = <<>> THEN ret = NilErr
                     ELSE IsAggregate(ret) /\ Errors(ret) = kept
           /\ err.kind = "ptr" => ret = IF Matched(err) THEN NilErr ELSE err

C10_Witness ==
    /\ call.op = "FilterOut"
    /\ call.args[1] = aggregate(<<Ptr(1), Ptr(2), Ptr(3)>>)
    /\ call.args[2] = <<MatchIs(Ptr(2))>>
    /\ ret = aggregate(<<Ptr(1), Ptr(3)>>)

\* the external-safe message of a withCode link: the external text of the
\* Coder registered for its code (of the unknown Coder when none is), or the
\* link's own message when that text is empty
ExternalSafe(h, cds, w) ==
    LET coder == Lookup(cds, h[w].code)
    IN  IF coder.Ext # "" THEN coder.Ext ELSE h[w].err

\* C11: Error() of a withCode link, and its %v rendering without flags,
\* is exactly the external-safe message of that (outermost) link, with no
\* caller location and no numeric code.
C11_ErrorIsExternalSafe ==
    /\ call.op = "Error" => out = ExternalSafe(heap, codes, call.args[1])
    /\ (call.op = "Sprintf" /\ call.args[2] = "v" /\ call.args[3] = {})
          => /\ ~panicked
             /\ out = ExternalSafe(heap, codes, call.args[1])

\* the entries of the links errs[k+1..], each with caller location, code and
\* message, joined by "; "
RECURSIVE TraceEntries(_, _, _, _)
TraceEntries(h, cds, errs, k) ==
    IF k >= Len(errs) THEN ""
    ELSE TextEntry(Len(errs) - k - 1, buildFormatInfo(h, cds, errs[k + 1]),
                   IF k = 0 THEN "" ELSE "; ", TRUE, TRUE)
         \o TraceEntries(h, cds, errs, k + 1)

\* C12: rendering a chain of withCode links with the trace flag (%+v, with
\* or without '-') completes without a panic and prints one entry per link,
\* outermost first, joined by "; ".
C12_TraceListsEveryLink ==
    (/\ call.op = "Sprintf"
     /\ call.args[2] = "v"
     /\ "+" \in call.args[3]
     /\ "#" \notin call.args[3]
     /\ \A i \in DOMAIN list(heap, call.args[1]) :
           IsWithCode(heap, list(heap, call.args[1])[i]))
    => /\ ~panicked
       /\ out = TraceEntries(heap, codes, list(heap, call.args[1]), 0)

CodedWrapOps == {"WithStack", "Wrap", "Wrapf"}

\* C13: WithStack, Wrap and Wrapf applied to a withCode link e allocate
\* exactly one link, a withCode whose code is e's and whose cause is e (no
\* withStack or withMessage shell), and of all wrapping operations only
\* WrapC returns a withCode whose code differs from e's.
C13_CodedWrapKeepsCode ==
    [][/\ (call'.op \in CodedWrapOps /\ IsWithCode(heap, call'.args[1]))
          => /\ ~panicked'
             /\ heap' = Append(heap, heap'[Len(heap')])
             /\ ret' = Len(heap')
             /\ heap'[ret'].kind = "withCode"
             /\ heap'[ret'].code = heap[call'.args[1]].code
             /\ heap'[ret'].cause = call'.args[1]
       /\ (/\ call'.op \in WrapOps
           /\ IsWithCode(heap, call'.args[1])
           /\ IsWithCode(heap', ret')
           /\ heap'[ret'].code # heap[call'.args[1]].code)
          => call'.op = "WrapC"]_vars

\* Wrap applied to a withCode link that is itself the result of re-wrapping
\* a withCode link: the result still carries the first link's code
C13_Witness ==
    /\ call.op = "Wrap"
    /\ IsWithCode(heap, call.args[1])
    /\ IsWithCode(heap, heap[call.args[1]].cause)
    /\ heap[heap[call.args[1]].cause].cause = Nil
    /\ IsWithCode(heap, ret)
    /\ heap[ret].cause = call.args[1]
    /\ heap[ret].code = heap[heap[call.args[1]].cause].code

\* C14: the Aggregate FilterOut returns is flat: its Errors() holds no
\* Aggregate, and is exactly the leaf errors of the input, depth first, that
\* no matcher matches.
C14_FilterOutFlattens ==
    (call.op = "FilterOut" /\ IsAggregate(call.args[1]) /\ IsAggregate(ret)) =>
       LET fns == call.args[2]
           Matched(e) == \E i \in DOMAIN fns : Apply(heap, fns[i], e)
       IN  /\ \A i \in DOMAIN Errors(ret) : ~IsAggregate(Errors(ret)[i])
           /\ Errors(ret) = SelectSeq(LeavesOf(call.args[1]), LAMBDA e : ~Matched(e))

\* the goroutines holding codeMux: past Lock() and before the deferred Unlock()
Holding == {p \in Goroutines : procs[p].pc \in {"check", "write", "return", "panicking"}}

\* the goroutines that called MustRegister with code c, and those of them
\* that pass the existence check
MustCallers(c) ==
    {p \in Goroutines : procs[p].op = "MustRegister" /\ Code(procs[p].coder) = c}
Inserters(c) == {p \in MustCallers(c) : procs[p].pc \in {"write", "return", "done"}}

\* no goroutine has called Register with code c
NoRegister(c) ==
    \A p \in Goroutines : ~(procs[p].op = "Register" /\ Code(procs[p].coder) = c)

\* C15: at most one registration call holds codeMux at a time; of the
\* goroutines calling MustRegister with the same unregistered nonzero code
\* at most one passes the check and inserts its Coder, and another panics
\* only once that Coder is in the registry; the lock is free whenever no call
\* is between Lock and Unlock, and every call that started returns or panics.
C15_RegistrationIsExclusive ==
    /\ [](Cardinality(Holding) <= 1)
    /\ [](\A c \in {100, 200} : NoRegister(c) =>
             /\ Cardinality(Inserters(c)) <= 1
             /\ \A p \in MustCallers(c) :
                   procs[p].pc \in {"panicking", "panicked"} =>
                      \E q \in Inserters(c) \ {p} :
                         /\ procs[q].pc \in {"return", "done"}
                         /\ codes[c] = procs[q].coder
             /\ \A q \in Inserters(c) :
                   procs[q].pc = "done" => codes[c] = procs[q].coder)
    /\ []((Holding = {}) <=> (codeMux = 0))
    /\ \A p \in Goroutines :
          (procs[p].pc = "entry") ~> (procs[p].pc \in {"done", "panicked"})

\* every goroutine called MustRegister with code 100: one returned with its
\* Coder inserted, every other panicked, and the lock is free again
C15_Witness ==
    /\ \A p \in Goroutines : procs[p].op = "MustRegister" /\ Code(procs[p].coder) = 100
    /\ \E p \in Goroutines :
          /\ procs[p].pc = "done"
          /\ codes[100] = procs[p].coder
          /\ \A q \in Goroutines \ {p} : procs[q].pc = "panicked"
    /\ codeMux = 0
====
